---- MODULE Spec2Model ----
(***************************************************************************)
(* State-machine model of src/src/useQm.tsx (current revision, lines       *)
(* 273-723): the request engine useCoreFetch and the stream engine useSse. *)
(*                                                                         *)
(* JavaScript runs the hooks on one event loop, so every step between two  *)
(* awaits is atomic.  Each action below is one such step: the synchronous  *)
(* part of execute()/abort(), or the continuation that runs when an        *)
(* awaited promise settles (credential supplier, fetch, body decoding,     *)
(* retry timer, EventSource notification).                                 *)
(*                                                                         *)
(* Transport contract (spec section 6, and the behaviour of fetch): once   *)
(* the AbortSignal handed to fetch is aborted, the pending fetch() and a   *)
(* pending body read reject with an AbortError.  The credential supplier   *)
(* and setTimeout know nothing of the signal.                              *)
(***************************************************************************)
EXTENDS Integers, Sequences, FiniteSets, TLC

\* ---------------------------------------------------------------- bounds
MaxCalls == 2        \* execute() calls on one request engine
MaxRetry == 2        \* largest retry.count passed to execute()
MaxConns == 3        \* EventSource objects one stream engine creates
MaxSseExec == 2      \* execute() calls on one stream engine
MaxSseRetry == 1     \* largest retry.count in the options of useSse
MaxBadEvents == 1    \* malformed events are delivered while sseTracked is below this

\* ------------------------------------------------------- value universe
Null == [kind |-> "null"]
Pending == [kind |-> "pending"]          \* promise of execute() not settled

Statuses == {200, 404, 503}              \* res.status values the transport returns
Tokens == {"", "t"}                      \* values the credential supplier resolves to
NoHeader == "none"

Calls == 1..MaxCalls
RetryCounts == 0..MaxRetry

VARIABLES
    data, loading, problemDetails,  \* useState triple of useCoreFetch
    controller,                     \* controller.current: call owning the token, 0 = null
    calls,                          \* per execute() call: its closure and position
    nCalls,                         \* execute() calls made so far
    getAuthToken,                   \* is a credential supplier configured
    tracked                         \* trackError notifications so far

fetchVars == <<data, loading, problemDetails, controller, calls, nCalls,
               getAuthToken, tracked>>

VARIABLES
    sseData, sseLoading, sseProblemDetails,  \* useState triple of useSse
    esRef,                          \* esRef.current: connection id, 0 = null
    retryAttemptRef,                \* retryAttemptRef.current
    conns,                          \* per EventSource: readyState and its onerror continuation
    nConns,                         \* EventSource objects created so far
    execWait,                       \* connect() calls of execute() awaiting the credential
    nSseExec,                       \* execute() calls made so far
    retry,                          \* options.retry of useSse
    sseGetAuthToken,                \* is a credential supplier configured
    authQueryParam,                 \* options.authQueryParam, "" when set empty
    mounted,                        \* the consumer of useSse has not been torn down
    everOpened,                     \* an open notification came since the last execute()
    sseTracked                      \* trackError notifications so far

sseVars == <<sseData, sseLoading, sseProblemDetails, esRef, retryAttemptRef,
             conns, nConns, execWait, nSseExec, retry, sseGetAuthToken,
             authQueryParam, mounted, everOpened, sseTracked>>

\* the options and the context of useSse, fixed for the life of the engine
sseConfig == <<retry, sseGetAuthToken, authQueryParam>>

\* if (authQueryParam && getAuthToken)
sseAuth == authQueryParam # "" /\ sseGetAuthToken

VARIABLES
    hookKind,                       \* "query" (useQuery) or "mutation" (useMutation)
    autoInvoke,                     \* options.autoInvoke as the component passed it
    hasUrl,                         \* the static url is not empty
    responseType,                   \* options.responseType, "unset" when absent
    retryDelay,                     \* options.retry.delay
    sequential,                     \* the component calls execute() only when no call is unresolved
    auto                            \* the deferred auto-invoke: "off" or "pending"

\* the options of the request hook and the habits of its component, fixed
\* for the life of the engine
optConfig == <<hookKind, autoInvoke, hasUrl, responseType, retryDelay, sequential>>

optVars == <<optConfig, auto>>

VARIABLES
    dGiven,                         \* the options the component gave useMutation, Null when
                                    \* useCoreFetch is looked at on its own
    dOptions,                       \* options: optionsRef.current as read when the call started
    dRender,                        \* the latest render: its url and optionsRef.current
    dUrl,                           \* the first argument of the last fetch(...) call
    dWait,                          \* the delay of the last setTimeout of the call
    dOverride,                      \* dynamicOptions: the per-call override
    dToken,                         \* what getAuthToken() resolved to in the attempt
    dAttempt,                       \* attempts of the call built so far
    dSent                           \* the init object of the last fetch(...) call

descrVars == <<dGiven, dOptions, dRender, dUrl, dWait, dOverride, dToken, dAttempt, dSent>>

vars == <<fetchVars, sseVars, optVars, descrVars>>

\* ------------------------------------------------- pure parts of execute
\* res.ok
IsOk(status) == status >= 200 /\ status <= 299

\* const maxAttempts = (retryConfig?.count || 0) + 1
MaxAttemptsOf(count) == count + 1

\* mutant of ShouldRetry: retry after any response
ShouldRetryAnyStatus(status, attempt, maxAttempts) == attempt < maxAttempts - 1

\* if (res.status >= 500 && res.status < 600 && attempt < maxAttempts - 1)
ShouldRetry(status, attempt, maxAttempts) ==
    status >= 500 /\ status < 600 /\ attempt < maxAttempts - 1

\* mutant of AuthHeaderOf: the token itself is sent as the header value
AuthHeaderRaw(token) == token

\* authHeader = token ? `Bearer ${token}` : undefined
AuthHeaderOf(token) == IF token = "" THEN NoHeader ELSE "Bearer " \o token

\* problem published for a non-ok response whose body was decoded
ResponseProblem(status, isJson) ==
    IF isJson
    THEN [kind |-> "problem", status |-> status, title |-> "ServerProblem"]
    ELSE [kind |-> "problem", status |-> status, title |-> "Request failed"]

\* what a non-ok response can carry
ErrorBodies == {"problem", "null", "malformed"}

\* mutant of PublishedProblem: the decoded body is replaced by a
\* synthesized problem whatever the content type
PublishedProblemSynthesized(status, isJson, body) == ResponseProblem(status, FALSE)

\* const problem = isJson ? (message as ProblemDetails) : { status, title, detail }
\* the decoded body is published as it is, the JSON literal null included
PublishedProblem(status, isJson, body) ==
    IF isJson /\ body = "null" THEN Null ELSE ResponseProblem(status, isJson)

\* mutant of ExceptionProblem: the title is the fallback whatever was thrown
ExceptionProblemUnnamed(name) ==
    [kind |-> "problem", status |-> 0, title |-> "Network Error"]

\* problem built in the catch block from err.name
ExceptionProblem(name) == [kind |-> "problem", status |-> 0, title |-> name]

\* problem built after the while loop
MaxRetriesProblem == [kind |-> "problem", status |-> 0, title |-> "Max Retries Exceeded"]

\* the body of an ok response is read with res.json()
ReadsJson(rt, isJson) == rt # "blob" /\ rt # "text" /\ (rt = "json" \/ isJson)

\* mutant of ResultOf: the content type is looked at before the override
ResultOfContentFirst(rt, status, isJson) ==
    IF isJson THEN [kind |-> "json", status |-> status]
    ELSE IF rt = "blob" THEN [kind |-> "blob", status |-> status]
    ELSE IF rt = "text" THEN [kind |-> "text", status |-> status]
    ELSE IF rt = "json" THEN [kind |-> "json", status |-> status]
    ELSE [kind |-> "wrapped", status |-> status]

\* value decoded from an ok response: { blob, filename }, the text, the
\* parsed JSON, or { status, message: text }
ResultOf(rt, status, isJson) ==
    IF rt = "blob" THEN [kind |-> "blob", status |-> status]
    ELSE IF rt = "text" THEN [kind |-> "text", status |-> status]
    ELSE IF rt = "json" \/ isJson THEN [kind |-> "json", status |-> status]
    ELSE [kind |-> "wrapped", status |-> status]

\* mutant of FinallyLoading: the finally block without its token test
FinallyLoadingUnchecked(c, ctl, ld) == FALSE

\* finally { if (controller.current === currentController) setLoading(false) }
FinallyLoading(c, ctl, ld) == IF ctl = c THEN FALSE ELSE ld

\* mutant of Supersede: execute() that leaves the previous token alone
SupersedeNothing(cs, ctl) == cs

\* if (controller.current) controller.current.abort()   -- in execute()
Supersede(cs, ctl) == IF ctl = 0 THEN cs ELSE [cs EXCEPT ![ctl].aborted = TRUE]

\* if (controller.current) controller.current.abort()   -- in abort()
AbortController(cs, ctl) == IF ctl = 0 THEN cs ELSE [cs EXCEPT ![ctl].aborted = TRUE]

\* ------------------------------------------------------------ initial state
NoRes == [status |-> 0, isJson |-> FALSE]

IdleCall ==
    [pc |-> "idle", aborted |-> FALSE, attempt |-> 0, maxAttempts |-> 0,
     auths |-> 0, fetches |-> 0, res |-> NoRes, token |-> "", timer |-> 0,
     authHeader |-> NoHeader, result |-> Pending]

InitFetch ==
    /\ data = Null
    /\ loading = FALSE
    /\ problemDetails = Null
    /\ controller = 0
    /\ calls = [c \in Calls |-> IdleCall]
    /\ nCalls = 0
    /\ getAuthToken \in BOOLEAN
    /\ tracked = 0

\* a stream engine that is never used
SseOff ==
    /\ sseData = Null /\ sseLoading = FALSE /\ sseProblemDetails = Null
    /\ esRef = 0 /\ retryAttemptRef = 0
    /\ conns = [id \in {} |-> Null] /\ nConns = 0
    /\ execWait = 0 /\ nSseExec = 0
    /\ retry = [set |-> FALSE, count |-> 0] /\ sseTracked = 0
    /\ sseGetAuthToken = FALSE /\ authQueryParam = "access_token" /\ mounted = TRUE
    /\ everOpened = FALSE

\* a request hook used the plain way: useQuery without autoInvoke, no
\* responseType, execute() called at any time
OptsOff ==
    /\ hookKind = "query" /\ autoInvoke = FALSE /\ hasUrl = TRUE
    /\ responseType = "unset" /\ retryDelay = 10
    /\ sequential = FALSE /\ auto = "off"

\* no request descriptor is looked at
DescrOff ==
    /\ dOptions = Null /\ dOverride = Null /\ dToken = ""
    /\ dAttempt = 0 /\ dSent = Null
    /\ dRender = Null /\ dUrl = "" /\ dWait = 0 /\ dGiven = Null

Init == InitFetch /\ SseOff /\ OptsOff /\ DescrOff

\* ---------------------------------------------------------------- helpers
\* execute() of call c has started and its promise is not settled
InFlight(c) == calls[c].pc \notin {"idle", "done"}

\* mutant of RetryTimer: the delay doubles with every retry
RetryTimerBackoff(delay, nextAttempt) ==
    IF nextAttempt <= 1 THEN delay ELSE 2 * delay

\* setTimeout(resolve, retryConfig!.delay) before attempt nextAttempt + 1
RetryTimer(delay, nextAttempt) == delay

\* mutant of StartAttempt: the supplier is asked on the first attempt only
StartAttemptCached(r) ==
    IF getAuthToken /\ r.attempt = 0
    THEN [r EXCEPT !.pc = "auth", !.auths = @ + 1]
    ELSE [r EXCEPT !.pc = "fetch", !.fetches = @ + 1, !.authHeader = NoHeader]

\* top of the while body: the synchronous code up to the first await
StartAttempt(r) ==
    IF getAuthToken
    THEN [r EXCEPT !.pc = "auth", !.auths = @ + 1]
    ELSE [r EXCEPT !.pc = "fetch", !.fetches = @ + 1, !.authHeader = NoHeader]

\* the closure of a call that has returned: its locals are gone, what is
\* left is the settled promise and the AbortController it created
Settled(r, value) ==
    [IdleCall EXCEPT !.pc = "done", !.aborted = r.aborted, !.result = value]

\* return from inside try: the promise settles, then finally runs
Return(c, value, pd, d, trackedBy) ==
    /\ calls' = [calls EXCEPT ![c] = Settled(calls[c], value)]
    /\ tracked' = tracked + trackedBy
    /\ problemDetails' = pd
    /\ data' = d
    /\ loading' = FinallyLoading(c, controller, loading)
    /\ UNCHANGED <<controller, nCalls, getAuthToken, sseVars, optVars, descrVars>>

\* the component uses useCoreFetch (useQuery, useMutation)
FetchOn == DOMAIN calls # {}

\* the component uses useSse
SseOn == DOMAIN conns # {}

\* ---------------------------------------------------------------- actions
\* the synchronous part of execute(): supersede, new controller,
\* setLoading(true), setProblemDetails(null), first loop test
StartCall(count) ==
    /\ LET c == nCalls + 1
           cs == Supersede(calls, controller)
           r == [cs[c] EXCEPT !.attempt = 0, !.maxAttempts = MaxAttemptsOf(count)]
       IN /\ nCalls' = c
          /\ controller' = c
          /\ loading' = TRUE
          /\ IF r.attempt < r.maxAttempts
             THEN /\ calls' = [cs EXCEPT ![c] = StartAttempt(r)]
                  /\ problemDetails' = Null
             ELSE /\ calls' = [cs EXCEPT ![c] = Settled(r, Null)]
                  /\ problemDetails' = MaxRetriesProblem
          /\ UNCHANGED <<data, getAuthToken, tracked, sseVars, optConfig, descrVars>>

\* execute() called by the component; the deferred auto-invoke, a
\* microtask of the mount, has run before any call the component makes
Execute(count) ==
    /\ FetchOn
    /\ nCalls < MaxCalls
    /\ auto = "off"
    /\ sequential => \A c \in Calls : ~InFlight(c)
    /\ StartCall(count)
    /\ auto' = auto

\* Promise.resolve().then(() => execute()) scheduled by the mount effect
AutoInvoke(count) ==
    /\ FetchOn
    /\ nCalls < MaxCalls
    /\ auto = "pending"
    /\ StartCall(count)
    /\ auto' = "off"

\* await getAuthToken() resolves; headers are built and fetch is invoked
AuthResolved(c, token) ==
    /\ calls[c].pc = "auth"
    /\ calls' = [calls EXCEPT ![c].pc = "fetch", ![c].fetches = @ + 1,
                              ![c].token = token,
                              ![c].authHeader = AuthHeaderOf(token)]
    /\ UNCHANGED <<data, loading, problemDetails, controller, nCalls,
                   getAuthToken, tracked, sseVars, optVars, descrVars>>

\* await getAuthToken() rejects: catch publishes, finally runs
AuthRejected(c) ==
    /\ calls[c].pc = "auth"
    /\ Return(c, Null, ExceptionProblem("Error"), data, 1)

\* await fetch(...) rejects with AbortError because the signal is aborted
FetchAborted(c) ==
    /\ calls[c].pc = "fetch"
    /\ calls[c].aborted
    /\ Return(c, Null, problemDetails, data, 0)

\* await fetch(...) rejects with a network error
FetchThrows(c) ==
    /\ calls[c].pc = "fetch"
    /\ ~calls[c].aborted
    /\ Return(c, Null, ExceptionProblem("TypeError"), data, 1)

\* await fetch(...) resolves with a response; a response that is retried is
\* dropped unread, only its status having been looked at
FetchResponse(c, status, isJson) ==
    /\ calls[c].pc = "fetch"
    /\ ~calls[c].aborted
    /\ LET r == [calls[c] EXCEPT !.res = [status |-> status, isJson |-> isJson],
                                 !.token = "", !.authHeader = NoHeader]
       IN calls' = [calls EXCEPT ![c] =
            IF IsOk(status)
            THEN [r EXCEPT !.pc = "decodeOk"]
            ELSE IF ShouldRetry(status, r.attempt, r.maxAttempts)
                 THEN [r EXCEPT !.attempt = @ + 1, !.pc = "delay", !.res.isJson = FALSE,
                                !.timer = RetryTimer(retryDelay, r.attempt + 1)]
                 ELSE [r EXCEPT !.pc = "decodeProblem"]]
    /\ UNCHANGED <<data, loading, problemDetails, controller, nCalls,
                   getAuthToken, tracked, sseVars, optVars, descrVars>>

\* the retry timer fires: continue runs finally, then the loop test
DelayDone(c) ==
    /\ calls[c].pc = "delay"
    /\ loading' = FinallyLoading(c, controller, loading)
    /\ LET r == [calls[c] EXCEPT !.timer = 0]
       IN IF r.attempt < r.maxAttempts
          THEN /\ calls' = [calls EXCEPT ![c] = StartAttempt(r)]
               /\ problemDetails' = problemDetails
          ELSE /\ calls' = [calls EXCEPT ![c] = Settled(r, Null)]
               /\ problemDetails' = MaxRetriesProblem
    /\ UNCHANGED <<data, controller, nCalls, getAuthToken, tracked, sseVars, optVars, descrVars>>

\* await res.json() / res.text() of a non-ok response settles
\* body tells what the response carries: a problem object ("problem", or
\* any text when the content type is not JSON), the JSON literal null, or
\* text that is not JSON
DecodeProblem(c, body) ==
    /\ calls[c].pc = "decodeProblem"
    /\ ~calls[c].aborted
    /\ body = "problem" \/ calls[c].res.isJson
    /\ IF body # "malformed"
       THEN Return(c, Null,
                   PublishedProblem(calls[c].res.status, calls[c].res.isJson, body),
                   data, 1)
       ELSE Return(c, Null, ExceptionProblem("SyntaxError"), data, 1)

\* await res.json() / res.text() of an ok response settles
DecodeOk(c, parses) ==
    /\ calls[c].pc = "decodeOk"
    /\ ~calls[c].aborted
    /\ parses \/ ReadsJson(responseType, calls[c].res.isJson)
    /\ IF parses
       THEN LET result == ResultOf(responseType, calls[c].res.status,
                                   calls[c].res.isJson)
            IN Return(c, result, Null, result, 0)
       ELSE Return(c, Null, ExceptionProblem("SyntaxError"), data, 1)

\* the body read rejects with AbortError because the signal is aborted
DecodeAborted(c) ==
    /\ calls[c].pc \in {"decodeProblem", "decodeOk"}
    /\ calls[c].aborted
    /\ Return(c, Null, problemDetails, data, 0)

\* abort(): if (controller.current) controller.current.abort()
Abort ==
    /\ calls' = AbortController(calls, controller)
    /\ UNCHANGED <<data, loading, problemDetails, controller, nCalls,
                   getAuthToken, tracked, sseVars, optVars, descrVars>>

NextFetch ==
    \/ \E count \in RetryCounts : Execute(count)
    \/ \E c \in DOMAIN calls, token \in Tokens : AuthResolved(c, token)
    \/ \E c \in DOMAIN calls : AuthRejected(c)
    \/ \E c \in DOMAIN calls : FetchAborted(c)
    \/ \E c \in DOMAIN calls : FetchThrows(c)
    \/ \E c \in DOMAIN calls, status \in Statuses, isJson \in BOOLEAN : FetchResponse(c, status, isJson)
    \/ \E c \in DOMAIN calls : DelayDone(c)
    \/ \E c \in DOMAIN calls, body \in ErrorBodies : DecodeProblem(c, body)
    \/ \E c \in DOMAIN calls, parses \in BOOLEAN : DecodeOk(c, parses)
    \/ \E c \in DOMAIN calls : DecodeAborted(c)
    \/ Abort

Next == NextFetch

Spec == Init /\ [][Next]_vars

\* ============================================ request engine: properties
\* call c is past execute()'s synchronous part and has not returned
Superseded(c) == calls[c].pc # "idle" /\ controller # c

\* this step is a continuation of call c
Steps(c) == calls[c].pc \notin {"idle", "done"} /\ calls'[c].pc # calls[c].pc

Is5xx(status) == status >= 500 /\ status < 600

\* C1: a call that a newer execute() has superseded writes neither data nor
\* problemDetails in any of its later steps, and it resolves null.
C1_SupersededPublishesNothing ==
    [][\A c \in Calls :
        (Superseded(c) /\ Steps(c)) =>
            /\ data' = data
            /\ problemDetails' = problemDetails
            /\ (calls'[c].pc = "done" => calls'[c].result = Null)]_vars

\* C2: whenever loading is false, data and problemDetails are not both
\* non-null.
C2_SettledExclusive ==
    ~loading => ~(data # Null /\ problemDetails # Null)

\* C3: a call with retry count N invokes the transport at most N+1 times,
\* exactly once per response when N = 0; an attempt after the first one starts
\* only after a 5xx response; and the call that got 503, 503, 200 with N = 2
\* has made exactly 3 invocations and publishes the success.
C3_RetryBudget ==
    /\ [](\A c \in Calls :
            /\ calls[c].fetches <= calls[c].maxAttempts
            /\ (calls[c].maxAttempts = 1 /\ calls[c].res # NoRes) => calls[c].fetches = 1
            /\ (calls[c].pc = "decodeOk" /\ calls[c].attempt = 2) => calls[c].fetches = 3)
    /\ [][\A c \in Calls :
            /\ (calls[c].fetches >= 1 /\ calls'[c].fetches > calls[c].fetches) =>
                    (calls[c].pc # "done" /\ Is5xx(calls[c].res.status))
            /\ (calls[c].pc = "decodeOk" /\ controller = c
                    /\ calls'[c].result \notin {Pending, Null}) =>
                    (data' = calls'[c].result /\ problemDetails' = Null /\ ~loading')
       ]_vars

\* C3 witness: a call with N = 2 got 503, 503, 200 and made 3 invocations.
C3_Witness ==
    \E c \in Calls :
        /\ calls[c].pc = "decodeOk" /\ calls[c].maxAttempts = 3
        /\ calls[c].attempt = 2 /\ calls[c].fetches = 3 /\ calls[c].res.status = 200

\* C4: a call that returns while it is the current one leaves loading false,
\* and no step of a superseded call turns loading from true to false.
C4_LoadingCleared ==
    /\ [](\A c \in Calls : (calls[c].pc = "done" /\ controller = c) => ~loading)
    /\ [][\A c \in Calls : (Superseded(c) /\ Steps(c)) => ~(loading /\ ~loading')]_vars

\* C4 witness: a superseded call has returned, its successor has returned
\* after a caller abort, and loading is false.
C4_Witness ==
    /\ nCalls = 2 /\ controller = 2 /\ ~loading
    /\ calls[1].pc = "done" /\ calls[2].pc = "done" /\ calls[2].aborted

\* C5: while the current call has neither returned nor been aborted, loading
\* is true.
C5_LoadingUntilSettled ==
    \A c \in Calls :
        (controller = c /\ InFlight(c) /\ ~calls[c].aborted) => loading

\* C6: when the last attempt the budget allows also gets a 5xx response, the
\* call publishes the synthesized "Max Retries Exceeded" problem.
C6_ExhaustedPublishesMaxRetries ==
    [][\A c \in Calls :
        (calls[c].pc = "decodeProblem" /\ Is5xx(calls[c].res.status)
            /\ controller = c /\ calls'[c].pc = "done") =>
            problemDetails' = MaxRetriesProblem]_vars

\* C7: once the token of a call is signalled, the call invokes neither the
\* credential supplier nor the transport again: its invocation counts do not
\* grow (they drop to 0 when the call returns and its closure is gone).
C7_AbortHaltsLoop ==
    [][\A c \in Calls :
        calls[c].aborted =>
            /\ calls'[c].auths <= calls[c].auths
            /\ calls'[c].fetches <= calls[c].fetches]_vars

\* C8: after abort() of the current call, every later step of that call
\* leaves data and problemDetails as they are, notifies no tracker, and the
\* call resolves null.
C8_CallerAbortIsSilent ==
    [][\A c \in Calls :
        (controller = c /\ calls[c].aborted /\ Steps(c)) =>
            /\ data' = data
            /\ problemDetails' = problemDetails
            /\ tracked' = tracked
            /\ (calls'[c].pc = "done" => calls'[c].result = Null)]_vars

\* C9: at most one call that has not returned holds an un-signalled token,
\* and execute() signals the previous token in the step that creates the new one.
C9_OneLiveToken ==
    /\ [](Cardinality({c \in Calls : InFlight(c) /\ ~calls[c].aborted}) <= 1)
    /\ [][(nCalls' = nCalls + 1 /\ controller # 0) => calls'[controller].aborted]_vars

\* C9 witness: two calls are in flight, the older one signalled.
C9_Witness ==
    /\ InFlight(1) /\ calls[1].aborted
    /\ InFlight(2) /\ ~calls[2].aborted

\* ======================================================== stream engine
ConnIds == 1..MaxConns

\* mutant of ParseProblem: the fallback title instead of the exception's name
ParseProblemFallback == [kind |-> "problem", status |-> 0, title |-> "ParseError"]

\* published by onmessage when JSON.parse throws: title is err.name, and
\* JSON.parse throws a SyntaxError
ParseProblem == [kind |-> "problem", status |-> 0, title |-> "SyntaxError"]

\* published by onerror when no reconnect is left
EventSourceProblem == [kind |-> "problem", status |-> 0, title |-> "EventSourceError"]

\* ev.data ? JSON.parse(ev.data) : null
ParsedEvent(payload) == IF payload = "empty" THEN Null ELSE [kind |-> "event"]

\* mutant of ShouldReconnect: the budget test off by one
ShouldReconnectOffByOne(rt, attempts) == rt.set /\ attempts <= rt.count

\* if (retry && retryAttemptRef.current < retry.count)
ShouldReconnect(rt, attempts) == rt.set /\ attempts < rt.count

\* the URL handed to new EventSource carries no auth query parameter
NoParam == [name |-> "", value |-> ""]

\* finalUrl: token ? appendAuthQueryParam(baseUrl, token, authQueryParam) : baseUrl
\* (searchParams.set(paramName, token) on the base URL)
FinalUrlParam(token, paramName) ==
    IF token = "" THEN NoParam ELSE [name |-> paramName, value |-> token]

\* mutant of OnErrorCounter: onerror that counts the reconnect twice
OnErrorCounterTwice(attempts) == attempts + 2

\* es.onerror: retryAttemptRef.current++
OnErrorCounter(attempts) == attempts + 1

\* mutant of OnOpenCounter: onopen that leaves the counter alone
OnOpenCounterKept(attempts) == attempts

\* es.onopen: retryAttemptRef.current = 0
OnOpenCounter(attempts) == 0

NoConn == [state |-> "none", task |-> "none", origin |-> "none",
           sawAbort |-> FALSE, afterAbort |-> FALSE,
           token |-> "", param |-> NoParam]

\* es.close(): a closed EventSource delivers nothing more; what remains of it
\* is the continuation of its onerror handler, if one is waiting
Closed(r) == [NoConn EXCEPT !.state = "closed", !.task = r.task, !.sawAbort = r.sawAbort]

\* the continuation of onerror of connection id has run to its end
TaskDone(cs, id) == [cs EXCEPT ![id].task = "none", ![id].sawAbort = FALSE]

\* a request engine that is never used
FetchOff ==
    /\ data = Null /\ loading = FALSE /\ problemDetails = Null
    /\ controller = 0 /\ calls = [c \in {} |-> Null] /\ nCalls = 0
    /\ getAuthToken = FALSE /\ tracked = 0

InitSse ==
    /\ FetchOff /\ OptsOff /\ DescrOff
    /\ sseData = Null
    /\ sseLoading = FALSE
    /\ sseProblemDetails = Null
    /\ esRef = 0
    /\ retryAttemptRef = 0
    /\ conns = [id \in ConnIds |-> NoConn]
    /\ nConns = 0
    /\ execWait = 0
    /\ nSseExec = 0
    /\ retry \in {[set |-> FALSE, count |-> 0]} \cup
                 {[set |-> TRUE, count |-> n] : n \in 0..MaxSseRetry}
    /\ sseGetAuthToken \in BOOLEAN
    /\ authQueryParam \in {"", "access_token"}
    /\ mounted = TRUE
    /\ everOpened = FALSE
    /\ sseTracked = 0

\* const es = new EventSource(finalUrl); esRef.current = es;
\* setLoading(true); setProblemDetails(null)
\* cs is conns as the caller left it, origin tells who called connect()
\* token is what the credential supplier resolved to, "" when it was not asked
NewEventSource(cs, origin, afterAbort, token) ==
    /\ nConns < MaxConns
    /\ nConns' = nConns + 1
    /\ conns' = [cs EXCEPT ![nConns + 1] =
                    [NoConn EXCEPT !.state = "connecting", !.origin = origin,
                                   !.afterAbort = afterAbort,
                                   !.token = token,
                                   !.param = FinalUrlParam(token, authQueryParam)]]
    /\ esRef' = nConns + 1
    /\ sseLoading' = TRUE
    /\ sseProblemDetails' = Null

\* mutant of CloseCurrent: the connection is dropped without close()
CloseNothing(cs, ref) == cs

\* esRef.current.close() when esRef.current is set
CloseCurrent(cs, ref) == IF ref = 0 THEN cs ELSE [cs EXCEPT ![ref] = Closed(@)]

\* execute(): close the current connection, reset the counter, connect()
SseExecute ==
    /\ SseOn
    /\ mounted
    /\ nSseExec < MaxSseExec
    /\ nSseExec' = nSseExec + 1
    /\ retryAttemptRef' = 0
    /\ everOpened' = FALSE
    /\ IF sseAuth
       THEN /\ conns' = CloseCurrent(conns, esRef)
            /\ esRef' = 0
            /\ execWait' = execWait + 1
            /\ UNCHANGED <<nConns, sseLoading, sseProblemDetails>>
       ELSE /\ NewEventSource(CloseCurrent(conns, esRef), "execute", FALSE, "")
            /\ UNCHANGED execWait
    /\ UNCHANGED <<sseData, sseConfig, mounted, sseTracked, fetchVars, optVars, descrVars>>

\* await getAuthToken() of a connect() called by execute() resolves
SseExecAuthResolved(token) ==
    /\ execWait > 0
    /\ execWait' = execWait - 1
    /\ NewEventSource(conns, "execute", FALSE, token)
    /\ UNCHANGED <<sseData, retryAttemptRef, nSseExec, sseConfig, mounted,
                   everOpened, sseTracked, fetchVars, optVars, descrVars>>

\* await getAuthToken() of a connect() called by execute() rejects:
\* connect() and execute() reject, nothing is published
SseExecAuthRejected ==
    /\ execWait > 0
    /\ execWait' = execWait - 1
    /\ UNCHANGED <<sseData, sseLoading, sseProblemDetails, esRef,
                   retryAttemptRef, conns, nConns, nSseExec, sseConfig,
                   mounted, everOpened, sseTracked, fetchVars, optVars, descrVars>>

\* es.onopen
SseOpen(id) ==
    /\ conns[id].state = "connecting"
    /\ conns' = [conns EXCEPT ![id].state = "open"]
    /\ everOpened' = TRUE
    /\ retryAttemptRef' = OnOpenCounter(retryAttemptRef)
    /\ UNCHANGED <<sseData, sseLoading, sseProblemDetails, esRef, nConns,
                   execWait, nSseExec, sseConfig, mounted, sseTracked,
                   fetchVars, optVars, descrVars>>

\* es.onmessage
SseMessage(id, payload) ==
    /\ conns[id].state = "open"
    /\ payload = "bad" => sseTracked < MaxBadEvents
    /\ IF payload = "bad"
       THEN /\ sseProblemDetails' = ParseProblem
            /\ sseTracked' = sseTracked + 1
            /\ UNCHANGED sseData
       ELSE /\ sseData' = ParsedEvent(payload)
            /\ UNCHANGED <<sseProblemDetails, sseTracked>>
    /\ UNCHANGED <<sseLoading, esRef, retryAttemptRef, conns, nConns, execWait,
                   nSseExec, sseConfig, mounted, everOpened, fetchVars, optVars, descrVars>>

\* es.onerror up to its await (or to its end when no reconnect is left)
SseError(id) ==
    /\ conns[id].state \in {"connecting", "open"}
    /\ esRef' = 0
    /\ sseLoading' = FALSE
    /\ IF ShouldReconnect(retry, retryAttemptRef)
       THEN /\ retryAttemptRef' = OnErrorCounter(retryAttemptRef)
            /\ conns' = [conns EXCEPT ![id] = [Closed(@) EXCEPT !.task = "delay"]]
            /\ UNCHANGED <<sseProblemDetails, sseTracked>>
       ELSE /\ sseProblemDetails' = EventSourceProblem
            /\ sseTracked' = sseTracked + 1
            /\ conns' = [conns EXCEPT ![id] = Closed(@)]
            /\ UNCHANGED retryAttemptRef
    /\ UNCHANGED <<sseData, nConns, execWait, nSseExec, sseConfig, mounted,
                   everOpened, fetchVars, optVars, descrVars>>

\* the reconnect timer of es.onerror fires: connect() is called
SseDelayDone(id) ==
    /\ conns[id].task = "delay"
    /\ IF sseAuth
       THEN /\ conns' = [conns EXCEPT ![id].task = "auth"]
            /\ UNCHANGED <<esRef, nConns, sseLoading, sseProblemDetails>>
       ELSE NewEventSource(TaskDone(conns, id), "reconnect",
                           conns[id].sawAbort, "")
    /\ UNCHANGED <<sseData, retryAttemptRef, execWait, nSseExec, sseConfig,
                   mounted, everOpened, sseTracked, fetchVars, optVars, descrVars>>

\* await getAuthToken() of the connect() called by es.onerror resolves
SseReconnectAuthResolved(id, token) ==
    /\ conns[id].task = "auth"
    /\ NewEventSource(TaskDone(conns, id), "reconnect",
                      conns[id].sawAbort, token)
    /\ UNCHANGED <<sseData, retryAttemptRef, execWait, nSseExec, sseConfig,
                   mounted, everOpened, sseTracked, fetchVars, optVars, descrVars>>

\* await getAuthToken() of the connect() called by es.onerror rejects:
\* the promise of connect() is dropped, nothing is published
SseReconnectAuthRejected(id) ==
    /\ conns[id].task = "auth"
    /\ conns' = TaskDone(conns, id)
    /\ UNCHANGED <<sseData, sseLoading, sseProblemDetails, esRef,
                   retryAttemptRef, nConns, execWait, nSseExec, sseConfig,
                   mounted, everOpened, sseTracked, fetchVars, optVars, descrVars>>

\* abort(): acts only when esRef.current is set; a reconnect that is
\* waiting at that moment is marked as having seen the abort
MarkAbort(cs) ==
    [id \in DOMAIN cs |->
        IF cs[id].task \in {"delay", "auth"} THEN [cs[id] EXCEPT !.sawAbort = TRUE]
        ELSE cs[id]]

\* mutant of AbortResult: abort() that leaves loading alone
AbortResultKeepsLoading(cs, ref, ld) ==
    [conns |-> CloseCurrent(cs, ref), esRef |-> 0, loading |-> ld]

\* mutant of AbortResult: abort() that clears loading whatever esRef is
AbortResultAlwaysClears(cs, ref, ld) ==
    [conns |-> CloseCurrent(cs, ref), esRef |-> 0, loading |-> FALSE]

\* what abort() leaves of the connections, esRef.current and loading:
\* if (esRef.current) { esRef.current.close(); esRef.current = null; setLoading(false) }
AbortResult(cs, ref, ld) ==
    [conns |-> CloseCurrent(cs, ref), esRef |-> 0,
     loading |-> IF ref # 0 THEN FALSE ELSE ld]

SseAbort ==
    /\ mounted
    /\ nSseExec > 0
    /\ LET a == AbortResult(conns, esRef, sseLoading)
       IN /\ conns' = MarkAbort(a.conns)
          /\ esRef' = a.esRef
          /\ sseLoading' = a.loading
    /\ UNCHANGED <<sseData, sseProblemDetails, retryAttemptRef, nConns,
                   execWait, nSseExec, sseConfig, mounted, everOpened,
                   sseTracked, fetchVars, optVars, descrVars>>

\* teardown of the consumer: the effect cleanup calls abort()
SseUnmount ==
    /\ mounted
    /\ nSseExec > 0
    /\ mounted' = FALSE
    /\ LET a == AbortResult(conns, esRef, sseLoading)
       IN /\ conns' = MarkAbort(a.conns)
          /\ esRef' = a.esRef
          /\ sseLoading' = a.loading
    /\ UNCHANGED <<sseData, sseProblemDetails, retryAttemptRef, nConns,
                   execWait, nSseExec, sseConfig, everOpened, sseTracked,
                   fetchVars, optVars, descrVars>>

NextSse ==
    \/ SseExecute
    \/ \E token \in Tokens : SseExecAuthResolved(token)
    \/ SseExecAuthRejected
    \/ \E id \in DOMAIN conns : SseOpen(id)
    \/ \E id \in DOMAIN conns, payload \in {"json", "empty", "bad"} : SseMessage(id, payload)
    \/ \E id \in DOMAIN conns : SseError(id)
    \/ \E id \in DOMAIN conns : SseDelayDone(id)
    \/ \E id \in DOMAIN conns, token \in Tokens : SseReconnectAuthResolved(id, token)
    \/ \E id \in DOMAIN conns : SseReconnectAuthRejected(id)
    \/ SseAbort
    \/ SseUnmount

SpecSse == InitSse /\ [][NextSse]_vars

\* --------------------------------------------- either hook, one instance
\* a component that uses one of the two hooks: the instance is a request
\* engine or a stream engine; the handlers of the hook that is not used
\* are never enabled
InitEither == Init \/ InitSse

NextEither == NextFetch \/ NextSse

SpecEither == InitEither /\ [][NextEither]_vars

\* ========================================= either engine, any retry count
\* retry.count is a number the caller chooses; nothing in execute() checks
\* its sign
NegCounts == {-1}

NextCounts ==
    \/ NextEither
    \/ \E count \in NegCounts : Execute(count)

SpecCounts == InitEither /\ [][NextCounts]_vars

\* ============================================ request hook with options
\* useQuery / useMutation with their options, used by a component that
\* calls execute() only when no call is unresolved
\* autoInvoke as useQuery (options?.autoInvoke ?? false) and useMutation
\* (autoInvoke: false) hand it to useCoreFetch
CoreAutoInvoke(kind, option) == IF kind = "mutation" THEN FALSE ELSE option

\* mutant of ShouldAutoInvoke: the url is not looked at
ShouldAutoInvokeAnyUrl(coreOption, url) == coreOption

\* options?.autoInvoke && url: the initial loading, and the test of the
\* mount effect
ShouldAutoInvoke(coreOption, url) == coreOption /\ url

InitOpts ==
    /\ SseOff /\ DescrOff
    /\ hookKind \in {"query", "mutation"}
    /\ autoInvoke \in BOOLEAN
    /\ hasUrl \in BOOLEAN
    /\ responseType \in {"unset", "json", "text", "blob"}
    /\ retryDelay \in {10, 20}
    /\ sequential = TRUE
    /\ auto = IF ShouldAutoInvoke(CoreAutoInvoke(hookKind, autoInvoke), hasUrl)
              THEN "pending" ELSE "off"
    /\ data = Null
    /\ loading = ShouldAutoInvoke(CoreAutoInvoke(hookKind, autoInvoke), hasUrl)
    /\ problemDetails = Null
    /\ controller = 0
    /\ calls = [c \in Calls |-> IdleCall]
    /\ nCalls = 0
    /\ getAuthToken \in BOOLEAN
    /\ tracked = 0

NextOpts ==
    \/ NextFetch
    \/ \E count \in RetryCounts : AutoInvoke(count)

SpecOpts == InitOpts /\ [][NextOpts]_vars

\* ================================================== request descriptor
\* What one execute() call hands to fetch on each of its attempts, as a
\* function of the static options, the per-call override and the token.
MaxDescrAttempts == 2    \* attempts of the call that are looked at

Absent == "absent"                       \* a key the object does not have

\* header names as the caller may spell them
HeaderKeys == {"Authorization", "authorization", "X-Id", "x-id",
               "Content-Type", "content-type"}

\* the name a Headers object files the key under
Lower(k) ==
    IF k \in {"Authorization", "authorization"} THEN "authorization"
    ELSE IF k \in {"Content-Type", "content-type"} THEN "content-type"
    ELSE "x-id"

\* header objects whose keys are among keys, every value being v
HeadersOver(keys, v) ==
    {h \in [HeaderKeys -> {Absent, v}] : \A k \in HeaderKeys \ keys : h[k] = Absent}

\* the spellings the request-engine inputs use
EngineKeys == {"Authorization", "authorization", "X-Id", "x-id"}

HeaderNames == {Lower(k) : k \in HeaderKeys}

NoHeaders == [k \in HeaderKeys |-> Absent]

\* typeof body === "object" for every kind but a string
BodyKinds == {"string", "plainObject", "FormData", "URLSearchParams",
              "ReadableStream", "ArrayBuffer", "Blob", "Uint8Array"}

\* the classes the serialization test lets through
PassedThrough == {"FormData", "URLSearchParams", "ReadableStream", "ArrayBuffer", "Blob"}

\* { ...a, ...b } on objects with string keys
Spread(a, b) == [k \in HeaderKeys |-> IF b[k] # Absent THEN b[k] ELSE a[k]]

\* the own enumerable properties object spread copies from options.headers:
\* those of a plain object, none of a Headers instance
OwnEntries(form, h) == IF form = "Headers" THEN NoHeaders ELSE h

\* ...(authHeader ? { Authorization: authHeader } : {})
AuthEntry(authHeader) ==
    [k \in HeaderKeys |->
        IF k = "Authorization" /\ authHeader # NoHeader THEN authHeader ELSE Absent]

\* const headers = { ...options.headers, ...dynamicOptions.headers, ...auth }
BuildHeaders(options, dyn, authHeader) ==
    Spread(Spread(OwnEntries(options.form, options.headers),
                  OwnEntries("object", dyn.headers)),
           AuthEntry(authHeader))

\* mergedOptions = { ...options, ...dynamicOptions }, one field of it
MergedField(static, override) == IF override # Absent THEN override ELSE static

\* const method = mergedOptions.method || "GET"
MethodOf(m) == IF m = Absent THEN "GET" ELSE m

\* body = JSON.stringify(body) under the test of lines 397-404; json counts
\* the encodings the value handed to fetch has been through
SerializeBody(kind) ==
    IF kind # Absent /\ kind # "string" /\ kind \notin PassedThrough
    THEN [kind |-> kind, json |-> 1]
    ELSE [kind |-> kind, json |-> 0]

\* the second argument of fetch(...)
FetchInit(options, dyn, authHeader) ==
    [method |-> MethodOf(MergedField(options.method, dyn.method)),
     headers |-> BuildHeaders(options, dyn, authHeader),
     body |-> SerializeBody(MergedField(options.body, dyn.body))]

\* the values the transport finds under a header name: fetch files the
\* entries of the headers object in a Headers, which joins same-name entries
SentValues(h, name) ==
    {h[k] : k \in {x \in HeaderKeys : Lower(x) = name /\ h[x] # Absent}}

\* the url the hook was given in the render whose execute() is called
BaseUrl == "/a"

\* a later render of the component: another url and other static options
Replaced ==
    [url |-> "/b",
     options |-> [method |-> "DELETE", form |-> "object",
                  headers |-> [k \in HeaderKeys |-> "r"],
                  body |-> "plainObject", delay |-> 20],
     since |-> 0]

\* mutant of OptionsOfCall: every attempt reads optionsRef.current again
OptionsOfCallLive(captured, render) == render.options

\* const options = optionsRef.current, read once before the loop; the
\* attempts use this local, whatever optionsRef.current has become
OptionsOfCall(captured, render) == captured

\* url of the closure of execute: the useCallback of the render that made it
UrlOfCall(closureUrl, render) == closureUrl

InitDescr ==
    /\ FetchOff /\ SseOff /\ OptsOff
    /\ dOptions \in [method : {Absent, "POST"},
                     form : {"object", "Headers"},
                     headers : HeadersOver(EngineKeys, "s"),
                     body : {Absent, "string"},
                     delay : {10}]
    /\ dGiven = Null
    /\ dRender = [url |-> BaseUrl, options |-> dOptions, since |-> 0]
    /\ dUrl = ""
    /\ dWait = 0
    /\ dOptions.form = "Headers" =>     \* a Headers holds lower-case names
            \A k \in HeaderKeys : dOptions.headers[k] # Absent => k = Lower(k)
    /\ dOverride \in [method : {Absent, "PUT"},
                      headers : HeadersOver(EngineKeys, "o"),
                      body : {Absent} \cup BodyKinds]
    /\ dToken = ""
    /\ dAttempt = 0
    /\ dSent = Null

\* one iteration of the while loop up to fetch(...): the token is asked
\* for, headers and body are built from the options merged at the start
DescrAttempt(token) ==
    /\ dOptions # Null
    /\ dAttempt < MaxDescrAttempts
    /\ dAttempt' = dAttempt + 1
    /\ dToken' = token
    /\ LET options == OptionsOfCall(dOptions, dRender)
       IN /\ dWait' = IF dAttempt = 0 THEN 0 ELSE RetryTimer(options.delay, dAttempt)
          /\ dUrl' = UrlOfCall(BaseUrl, dRender)
          /\ dSent' = FetchInit(options, dOverride, AuthHeaderOf(token))
    /\ UNCHANGED <<dGiven, dOptions, dRender, dOverride, fetchVars, sseVars, optVars>>

\* the component renders again with another url and other options while
\* the call is waiting: useEffect(() => { optionsRef.current = options })
ReplaceOptions ==
    /\ dOptions # Null
    /\ dAttempt > 0
    /\ dRender.url = BaseUrl
    /\ dRender' = [Replaced EXCEPT !.since = dAttempt]
    /\ UNCHANGED <<dGiven, dOptions, dUrl, dWait, dOverride, dToken, dAttempt,
                   dSent, fetchVars, sseVars, optVars>>

NextDescr ==
    \/ \E token \in Tokens : DescrAttempt(token)
    \/ ReplaceOptions

SpecDescr == InitDescr /\ [][NextDescr]_vars

\* ===================================================== mutation headers
\* What useMutation makes of the headers it is given before it hands the
\* options to useCoreFetch.
\* new Headers(base): the entries of a plain object filed under their
\* lower-case names, same-name entries joined with ", "
NewHeaders(base) ==
    [k \in HeaderKeys |->
        LET given == {x \in HeaderKeys : Lower(x) = k /\ base[x] # Absent}
        IN IF given = {} THEN Absent
           ELSE IF Cardinality(given) = 1 THEN base[CHOOSE x \in given : TRUE]
           ELSE LET x1 == CHOOSE x \in given : TRUE
                    x2 == CHOOSE x \in given \ {x1} : TRUE
                IN base[x1] \o ", " \o base[x2]]

\* mergeHeaders(base, { "Content-Type": "application/json" }): the default
\* is set unless the Headers has the name already
MergeHeaders(base) ==
    LET headers == NewHeaders(base)
    IN IF headers["content-type"] # Absent THEN headers
       ELSE [headers EXCEPT !["content-type"] = "application/json"]

\* the options useMutation passes to useCoreFetch
UseMutationOptions(given) ==
    [method |-> IF given.method = Absent THEN "POST" ELSE given.method,
     form |-> "Headers",
     headers |-> MergeHeaders(given.headers),
     body |-> given.body,
     delay |-> given.delay]

InitMutation ==
    /\ FetchOff /\ SseOff
    /\ hookKind = "mutation" /\ autoInvoke = FALSE /\ hasUrl = TRUE
    /\ responseType = "unset" /\ retryDelay = 10
    /\ sequential = FALSE /\ auto = "off"
    /\ dGiven \in [method : {Absent, "PUT"},
                   headers : HeadersOver({"Content-Type", "content-type", "X-Id"}, "s"),
                   body : {Absent},
                   delay : {10}]
    /\ dOptions = UseMutationOptions(dGiven)
    /\ dOverride \in [method : {Absent},
                      headers : HeadersOver({"Content-Type", "x-id"}, "o"),
                      body : {Absent, "plainObject"}]
    /\ dRender = [url |-> BaseUrl, options |-> dOptions, since |-> 0]
    /\ dUrl = ""
    /\ dWait = 0
    /\ dToken = ""
    /\ dAttempt = 0
    /\ dSent = Null

SpecMutation == InitMutation /\ [][NextDescr]_vars

\* ============================================= stream engine: properties
\* retry count N of the session: 0 when the retry option is absent
ReconnectBudget == IF retry.set THEN retry.count ELSE 0

Live(id) == conns[id].state \in {"connecting", "open"}

\* this step is the onerror handler of connection id
ErrorStep(id) ==
    /\ Live(id) /\ conns'[id].state = "closed"
    /\ conns'[id].task = "delay" \/ sseTracked' = sseTracked + 1

\* this step is the onmessage handler taking its catch branch
BadEventStep == sseTracked' = sseTracked + 1 /\ conns' = conns

\* this step is the synchronous part of execute()
ExecuteStep == nSseExec' = nSseExec + 1

\* C10: no connection is ever opened by a reconnect continuation that was
\* waiting (backoff delay or credential refresh) when abort() was called.
C10_AbortBeatsReconnect ==
    \A id \in ConnIds : ~(conns[id].origin = "reconnect" /\ conns[id].afterAbort)

C12_OpenResetsCounter ==
    [][\A id \in ConnIds :
        /\ (conns[id].state = "connecting" /\ conns'[id].state = "open") =>
                retryAttemptRef' = 0
        /\ (ErrorStep(id) /\ conns[id].state = "open" /\ retryAttemptRef = 0
                /\ ReconnectBudget >= 1) =>
                (conns'[id].task = "delay" /\ retryAttemptRef' = 1)]_vars

\* C12 witness: in one session a reconnect connection (the counter was 1
\* when it was made) is open and the counter is 0.
C12_Witness ==
    /\ nSseExec = 1 /\ retryAttemptRef = 0
    /\ \E id \in ConnIds : conns[id].state = "open" /\ conns[id].origin = "reconnect"

\* C13 as stated: a malformed event publishes status 0 with title
\* "ParseError", notifies the tracker, leaves data and the connection alone.
C13_ParseErrorTitle ==
    [][BadEventStep =>
        /\ sseProblemDetails' =
                [kind |-> "problem", status |-> 0, title |-> "ParseError"]
        /\ sseData' = sseData /\ esRef' = esRef]_vars

\* C13 amended: a malformed event publishes status 0 with the name of the
\* exception JSON.parse threw ("SyntaxError") as title, notifies the tracker
\* once, leaves data unchanged and leaves every connection as it was (open).
C13_ParseFailureKeepsStream ==
    [][BadEventStep =>
        /\ sseProblemDetails' =
                [kind |-> "problem", status |-> 0, title |-> "SyntaxError"]
        /\ sseData' = sseData /\ esRef' = esRef /\ sseLoading' = sseLoading
        /\ \E id \in ConnIds : conns'[id].state = "open"]_vars

\* C13 witness: a parse problem is published, the connection is still the
\* current one and open, and an event has been published as data.
C13_Witness ==
    /\ sseProblemDetails.kind = "problem" /\ sseProblemDetails.title = "SyntaxError"
    /\ esRef # 0 /\ conns[esRef].state = "open"
    /\ sseData # Null /\ sseTracked = 1

\* C14: after teardown no connection of the engine is connecting or open.
C14_TeardownClosesAll ==
    ~mounted => \A id \in ConnIds : ~Live(id)

\* C15: abort() with a live current connection leaves that connection
\* closed, esRef.current null and loading false, and abort() applied to the
\* result gives the same result.
C15_AbortIdempotent ==
    (esRef # 0 /\ Live(esRef)) =>
        LET a == AbortResult(conns, esRef, sseLoading)
        IN /\ a.conns[esRef].state = "closed"
           /\ a.esRef = 0
           /\ ~a.loading
           /\ AbortResult(a.conns, a.esRef, a.loading) = a

\* C15 witness: with no retry option and one execute(), the only
\* connection is closed with no problem published: abort() closed it.
C15_Witness ==
    /\ nSseExec = 1 /\ mounted /\ ~retry.set /\ nConns = 1
    /\ conns[1].state = "closed" /\ esRef = 0
    /\ ~sseLoading /\ sseProblemDetails = Null

\* C17: execute() closes the current connection and sets the counter to 0;
\* without a credential to wait for it creates, in the same step, a new
\* connection that becomes the current one; with one, connect() waits and
\* the connection is created, and becomes current, when the credential
\* resolves.
C17_ExecuteRestarts ==
    [][/\ ExecuteStep =>
            /\ retryAttemptRef' = 0
            /\ esRef # 0 => conns'[esRef].state = "closed"
            /\ IF authQueryParam # "" /\ sseGetAuthToken
               THEN esRef' = 0 /\ execWait' = execWait + 1
               ELSE /\ esRef' \notin {0, esRef}
                    /\ conns[esRef'].state = "none"
                    /\ conns'[esRef'].state = "connecting"
       /\ (execWait' = execWait - 1 /\ nConns' = nConns + 1) =>
            /\ esRef' = nConns'
            /\ conns[esRef'].state = "none"
            /\ conns'[esRef'].state = "connecting"]_vars

\* C17 witness: a second execute() closed connection 1 and made connection
\* 2 the current one.
C17_Witness ==
    /\ nSseExec = 2 /\ esRef = 2 /\ conns[1].state = "closed"
    /\ conns[2].state = "connecting" /\ conns[2].origin = "execute"

\* C18: while the current connection is connecting (created, open not yet
\* notified) loading is false.
C18_LoadingMeansOpen ==
    (esRef # 0 /\ conns[esRef].state = "connecting") => ~sseLoading
\* this step is abort() of the request engine reaching a controller
FetchAbortStep ==
    /\ nCalls' = nCalls
    /\ \E c \in DOMAIN calls : calls'[c].aborted /\ ~calls[c].aborted

\* C16: abort() of a stream engine that holds no connection leaves
\* esRef.current, the connections and loading as they are (it publishes
\* nothing else), and abort() of a request engine none of whose calls is
\* unresolved changes none of data, loading, problemDetails and leaves no
\* call unresolved.
C16_IdleAbortNoOp ==
    /\ []((SseOn /\ esRef = 0) =>
            AbortResult(conns, esRef, sseLoading) =
                [conns |-> conns, esRef |-> 0, loading |-> sseLoading])
    /\ [][(FetchAbortStep /\ \A c \in DOMAIN calls : ~InFlight(c)) =>
            /\ data' = data /\ loading' = loading
            /\ problemDetails' = problemDetails
            /\ \A c \in DOMAIN calls : calls'[c].pc = calls[c].pc]_vars

\* C16 witness: the only call resolved with data (so it was not aborted
\* while unresolved) and abort() then reached its controller; the published
\* state is still that success.
C16_Witness ==
    /\ FetchOn /\ nCalls = 1 /\ calls[1].pc = "done" /\ calls[1].aborted
    /\ calls[1].result # Null /\ data = calls[1].result
    /\ ~loading /\ problemDetails = Null

\* a stream connection is created in this step by a continuation that was
\* waiting for the credential supplier
CredentialConsumed ==
    \/ execWait' = execWait - 1
    \/ \E id \in DOMAIN conns : conns[id].task = "auth" /\ conns'[id].task = "none"

\* every attempt of a request engine with a supplier has asked the supplier
\* before its fetch: one more supplier call than fetches while the supplier
\* is awaited (no token or header of an earlier attempt is held), as many as
\* fetches from the fetch on
SupplierPerAttempt ==
    \A c \in DOMAIN calls :
        (getAuthToken /\ InFlight(c)) =>
            IF calls[c].pc = "auth"
            THEN /\ calls[c].auths = calls[c].fetches + 1
                 /\ calls[c].auths = calls[c].attempt + 1
                 /\ calls[c].token = "" /\ calls[c].authHeader = "none"
            ELSE /\ calls[c].auths = calls[c].fetches
                 /\ calls[c].fetches =
                        IF calls[c].pc = "delay" THEN calls[c].attempt
                                                 ELSE calls[c].attempt + 1

\* C19 as stated: with a supplier configured, every request attempt asks it
\* before the fetch, and every stream connection is created by a
\* continuation that waited for it.
C19_SupplierEveryAttempt ==
    /\ []SupplierPerAttempt
    /\ [][(sseGetAuthToken /\ nConns' = nConns + 1) => CredentialConsumed]_vars

\* C19 amended: the same, the stream part only when the auth query
\* parameter name is not empty; then execute() and the end of a reconnect
\* delay each start one wait for the supplier and create no connection.
C19_SupplierWhenParamNamed ==
    /\ []SupplierPerAttempt
    /\ [][/\ (sseGetAuthToken /\ authQueryParam # "" /\ nConns' = nConns + 1) =>
                CredentialConsumed
          /\ (sseGetAuthToken /\ authQueryParam # "" /\ ExecuteStep) =>
                (nConns' = nConns /\ execWait' = execWait + 1)
          /\ \A id \in DOMAIN conns :
                (sseGetAuthToken /\ authQueryParam # ""
                    /\ conns[id].task = "delay" /\ conns'[id].task # "delay") =>
                (nConns' = nConns /\ conns'[id].task = "auth")]_vars

\* C19 witness: the second attempt of a call is at its fetch and the
\* supplier has been asked twice.
C19_Witness ==
    \E c \in DOMAIN calls :
        /\ getAuthToken /\ calls[c].pc = "fetch" /\ calls[c].attempt = 1
        /\ calls[c].auths = 2 /\ calls[c].fetches = 2

\* C20: a fetch made after the supplier returned the empty token carries
\* no Authorization header and one made after token t carries "Bearer t";
\* a connection made after the empty token (or without asking) has no auth
\* query parameter and one made after token t has the configured parameter
\* with value t.
C20_TokenAttachment ==
    /\ \A c \in DOMAIN calls :
        (getAuthToken /\ calls[c].pc = "fetch") =>
            /\ calls[c].token = "" => calls[c].authHeader = "none"
            /\ calls[c].token # "" =>
                    calls[c].authHeader = "Bearer " \o calls[c].token
    /\ \A id \in DOMAIN conns :
        Live(id) =>
            /\ conns[id].token = "" => conns[id].param = [name |-> "", value |-> ""]
            /\ conns[id].token # "" =>
                    /\ sseGetAuthToken /\ authQueryParam # ""
                    /\ conns[id].param =
                        [name |-> authQueryParam, value |-> conns[id].token]

\* C20 witness: a fetch is under way with the header built from token "t".
C20_Witness ==
    \E c \in DOMAIN calls :
        /\ calls[c].pc = "fetch" /\ calls[c].token = "t"
        /\ calls[c].authHeader = "Bearer t"
\* the values the caller gave for a header name in a headers object
GivenValues(h, name) ==
    {h[k] : k \in {x \in HeaderKeys : Lower(x) = name /\ h[x] # Absent}}

\* C21: in the init object of every fetch the method and the body are the
\* override's when it has them and the static ones otherwise (method GET
\* when neither has one), and under every header name (letter case
\* ignored) the transport finds exactly the injected credential when there
\* is one and the name is authorization, else exactly the override's value
\* when the override has the name, else exactly the static value.
C21_MergeOrder ==
    dSent # Null =>
        /\ dSent.method =
                IF dOverride.method # Absent THEN dOverride.method
                ELSE IF dOptions.method # Absent THEN dOptions.method ELSE "GET"
        /\ dSent.body.kind =
                IF dOverride.body # Absent THEN dOverride.body ELSE dOptions.body
        /\ \A name \in HeaderNames :
                SentValues(dSent.headers, name) =
                    IF name = "authorization" /\ dToken # ""
                    THEN {"Bearer " \o dToken}
                    ELSE IF GivenValues(dOverride.headers, name) # {}
                         THEN GivenValues(dOverride.headers, name)
                         ELSE GivenValues(dOptions.headers, name)

\* C22: on every attempt the body handed to fetch is the JSON text of the
\* value, encoded once, when the body is a plain object, and the body as
\* given (no encoding) when it is a string, an ArrayBuffer or typed array,
\* a Blob, a stream, form data or URL-encoded form data.
C22_BodyEncoding ==
    (dSent # Null /\ dSent.body.kind # Absent) =>
        dSent.body.json = IF dSent.body.kind = "plainObject" THEN 1 ELSE 0
\* this step is the return of call c after the body of a non-ok response
\* was read
DecodeProblemStep(c) ==
    calls[c].pc = "decodeProblem" /\ ~calls[c].aborted /\ calls'[c].pc = "done"

\* C23: when the body of a non-ok response that is not retried has been
\* read, the call resolves null, loading is false, data is untouched, the
\* tracker is notified and problemDetails is: for a JSON content type the
\* decoded body as it is (a problem object, or null for the literal null),
\* or the SyntaxError problem when the body cannot be decoded; otherwise
\* {status, title "Request failed"}.
C23_NonSuccessPublished ==
    [][\A c \in DOMAIN calls :
        DecodeProblemStep(c) =>
            /\ calls'[c].result = Null
            /\ ~loading'
            /\ data' = data
            /\ tracked' = tracked + 1
            /\ IF calls[c].res.isJson
               THEN problemDetails' \in
                        {[kind |-> "problem", status |-> calls[c].res.status,
                          title |-> "ServerProblem"],
                         Null,
                         [kind |-> "problem", status |-> 0, title |-> "SyntaxError"]}
               ELSE problemDetails' =
                        [kind |-> "problem", status |-> calls[c].res.status,
                         title |-> "Request failed"]]_vars

\* C23 witness: the only call got a 404 with a JSON problem body; the body
\* is published, data is null, loading is false.
C23_Witness ==
    /\ FetchOn /\ nCalls = 1 /\ calls[1].pc = "done" /\ calls[1].result = Null
    /\ problemDetails = [kind |-> "problem", status |-> 404, title |-> "ServerProblem"]
    /\ data = Null /\ ~loading /\ tracked = 1

\* this step is the return of call c with the decoded body of an ok response
DecodeOkStep(c) ==
    /\ calls[c].pc = "decodeOk" /\ ~calls[c].aborted
    /\ calls'[c].pc = "done" /\ calls'[c].result # Null

\* C24: the value decoded from an ok response is a blob under the blob
\* override, else text under the text override, else JSON under the json
\* override or a JSON content type, else the wrapped text; it is published
\* as data and is what execute() resolves to, problemDetails is cleared and
\* loading is false, for every call of the engine.
C24_SuccessDecoded ==
    [][\A c \in DOMAIN calls :
        DecodeOkStep(c) =>
            LET kind == IF responseType = "blob" THEN "blob"
                        ELSE IF responseType = "text" THEN "text"
                        ELSE IF responseType = "json" \/ calls[c].res.isJson
                             THEN "json" ELSE "wrapped"
                v == [kind |-> kind, status |-> calls[c].res.status]
            IN /\ data' = v
               /\ calls'[c].result = v
               /\ problemDetails' = Null
               /\ ~loading']_vars

\* C24 witness: a re-execute (the second call) of an engine with the text
\* override resolved with the text and published it.
C24_Witness ==
    /\ FetchOn /\ nCalls = 2 /\ responseType = "text"
    /\ calls[2].pc = "done" /\ calls[2].result.kind = "text"
    /\ data = calls[2].result /\ problemDetails = Null /\ ~loading

\* this step is the return of call c after fetch rejected with something
\* other than a cancellation
FetchThrowsStep(c) ==
    calls[c].pc = "fetch" /\ ~calls[c].aborted /\ calls'[c].pc = "done"

\* C25: when fetch rejects on any attempt and the call is not cancelled,
\* the call publishes the status-0 problem named after the exception,
\* notifies the tracker, resolves null and is over, whatever is left of its
\* retry budget.
C25_TransportException ==
    [][\A c \in DOMAIN calls :
        FetchThrowsStep(c) =>
            /\ problemDetails' = [kind |-> "problem", status |-> 0, title |-> "TypeError"]
            /\ tracked' = tracked + 1
            /\ calls'[c].result = Null
            /\ data' = data
            /\ ~loading']_vars

\* C25 witness: the only call ended with the exception's problem.
C25_Witness ==
    /\ FetchOn /\ nCalls = 1 /\ calls[1].pc = "done" /\ calls[1].result = Null
    /\ problemDetails = [kind |-> "problem", status |-> 0, title |-> "TypeError"]
    /\ tracked = 1 /\ ~loading

\* this step is the return of call c with an AbortError caught
CancelStep(c) ==
    /\ calls[c].aborted /\ calls[c].pc \in {"fetch", "decodeOk", "decodeProblem"}
    /\ calls'[c].pc = "done"

\* C26: a call that returns null for any reason but a cancellation leaves
\* problemDetails non-null.
C26_FailureLeavesProblem ==
    [][\A c \in DOMAIN calls :
        (InFlight(c) /\ calls'[c].pc = "done" /\ calls'[c].result = Null
            /\ ~CancelStep(c)) =>
            problemDetails' # Null]_vars

\* this step is a connect() of the stream engine ending because
\* getAuthToken() rejected
SupplierFailedStep ==
    /\ nConns' = nConns
    /\ \/ execWait' = execWait - 1
       \/ \E id \in DOMAIN conns : conns[id].task = "auth" /\ conns'[id].task = "none"

\* C27: when the credential supplier rejects during a connection attempt
\* of the stream engine, problemDetails is non-null afterwards.
C27_SupplierFailurePublished ==
    [][SupplierFailedStep => sseProblemDetails' # Null]_vars

\* C28: whatever the options, the onerror handler of a stream connection
\* leaves a reconnect scheduled (the timer whose expiry opens the next
\* connection) and publishes no terminal problem.
C28_AlwaysReconnects ==
    [][\A id \in DOMAIN conns :
        ErrorStep(id) =>
            /\ conns'[id].task = "delay"
            /\ sseProblemDetails' = sseProblemDetails]_vars

\* C29: a mutation engine, and a query engine without autoInvoke or with
\* an empty url, starts with loading false and no deferred call, and no
\* call exists while execute() has not been called; a query engine with
\* autoInvoke and a url starts with loading true and one deferred call,
\* which starts call 1 and leaves no deferred call behind; nothing
\* schedules another.
C29_AutoInvoke ==
    /\ [](nCalls = 0 =>
            /\ \A c \in DOMAIN calls : calls[c].pc = "idle" /\ calls[c].fetches = 0
            /\ IF hookKind = "query" /\ autoInvoke /\ hasUrl
               THEN loading /\ auto = "pending"
               ELSE ~loading /\ auto = "off")
    /\ [][/\ auto' = "pending" => auto = "pending"
          /\ (auto = "pending" /\ auto' # auto) =>
                (nCalls = 0 /\ nCalls' = 1 /\ auto' = "off" /\ loading')
          /\ (auto = "pending" /\ auto' = auto) => nCalls' = nCalls]_vars

\* C29 witness: a query engine with autoInvoke has made its one call, which
\* succeeded, and nothing is deferred.
C29_Witness ==
    /\ FetchOn /\ hookKind = "query" /\ autoInvoke /\ hasUrl /\ auto = "off"
    /\ nCalls = 1 /\ calls[1].pc = "done" /\ data # Null /\ ~loading

C31_DescriptorFixed ==
    [][(dAttempt >= 1 /\ dAttempt' = dAttempt + 1) =>
            /\ dUrl' = dUrl
            /\ dSent'.method = dSent.method
            /\ dSent'.body = dSent.body
            /\ dAttempt >= 2 => dWait' = dWait
            /\ dWait' = dOptions.delay
            /\ \A k \in HeaderKeys \ {"Authorization"} :
                    dSent'.headers[k] = dSent.headers[k]]_vars

\* C31 witness: the options were replaced after the first attempt and the
\* second attempt, made with another token, still sent the method of the
\* options the call started with.
C31_Witness ==
    /\ dOptions # Null /\ dAttempt = 2 /\ dRender.since = 1
    /\ dOptions.method = "POST" /\ dOverride.method = Absent
    /\ dSent.method = "POST" /\ dUrl = BaseUrl /\ dWait = 10
    /\ dToken = "t"
\* C32: every step of the request engine that publishes a new non-null
\* problemDetails notifies the tracker exactly once, a step notifies at
\* most once, and a cancelled call and a retried 5xx response do not
\* notify; the same for the stream engine's problemDetails and tracker.
C32_TrackerPerProblem ==
    [][/\ (problemDetails' # Null /\ problemDetails' # problemDetails) =>
            tracked' = tracked + 1
       /\ tracked' \in {tracked, tracked + 1}
       /\ \A c \in DOMAIN calls :
            (CancelStep(c) \/ (calls[c].pc = "fetch" /\ calls'[c].pc = "delay")) =>
                tracked' = tracked
       /\ (sseProblemDetails' # Null /\ sseProblemDetails' # sseProblemDetails) =>
            sseTracked' = sseTracked + 1
       /\ sseTracked' \in {sseTracked, sseTracked + 1}]_vars

\* C35: whatever the retry count, a call that starts has an attempt budget
\* of at least 1 and enters its first attempt, and a call that has returned
\* while it is the current one leaves loading false.
C35_AlwaysOneAttempt ==
    /\ [][\A c \in DOMAIN calls :
            (calls[c].pc = "idle" /\ calls'[c].pc # "idle") =>
                /\ calls'[c].maxAttempts >= 1
                /\ calls'[c].pc \in {"auth", "fetch"}]_vars
    /\ [](\A c \in DOMAIN calls :
            (calls[c].pc = "done" /\ controller = c /\ ~calls[c].aborted) => ~loading)
\* C33: a stream engine never has two connections that are not closed, and
\* a connection that is not closed is the one esRef.current designates.
C33_OneLiveConnection ==
    /\ Cardinality({id \in DOMAIN conns : Live(id)}) <= 1
    /\ \A id \in DOMAIN conns : Live(id) => esRef = id

\* C34: the reconnect counter is never negative and never above the retry
\* count of the options (0 when there is no retry option).
C34_CounterInRange ==
    /\ retryAttemptRef >= 0
    /\ retryAttemptRef <= ReconnectBudget

\* C34 witness: with a retry count of 1 the counter has reached 1 in the
\* session of the second execute(), and a reconnect is waiting.
C34_Witness ==
    /\ SseOn /\ retry.set /\ retry.count = 1 /\ retryAttemptRef = 1
    /\ nSseExec = 2 /\ \E id \in DOMAIN conns : conns[id].task = "delay"
\* the caller of the mutation gave no header of this name, statically or
\* in the call
NotGiven(name) ==
    \A k \in HeaderKeys :
        Lower(k) = name => (dGiven.headers[k] = Absent /\ dOverride.headers[k] = Absent)

\* C36: every request of a mutation engine carries Content-Type
\* application/json when the caller gave no content-type header in any
\* spelling, and carries each header of the mutation's static options
\* whose name the per-call override does not give.
C36_MutationHeadersSent ==
    (dGiven # Null /\ dAttempt >= 1) =>
        /\ NotGiven("content-type") =>
                SentValues(dSent.headers, "content-type") = {"application/json"}
        /\ \A k \in HeaderKeys :
                (/\ dGiven.headers[k] # Absent
                 /\ \A x \in HeaderKeys : Lower(x) = Lower(k) => dOverride.headers[x] = Absent) =>
                    SentValues(dSent.headers, Lower(k)) # {}
====
